---- MODULE Spec2Model ----
(***************************************************************************)
(* Blackjack table (skateb2020/blackjack): the BettingPanel and the        *)
(* BlackjackTable component with the helpers of utils/gameLogic.ts and     *)
(* utils/splitLogic.ts.                                                    *)
(*                                                                         *)
(* The component is a React function component.  Each event handler and    *)
(* each effect runs to completion against the values of the render it was  *)
(* created in: `deck`, `runningCount` and `dealerHand` read inside a       *)
(* handler are the values of that render, however many setDeck(...) calls  *)
(* the handler has already made.  Plain setX(v) calls of one handler are   *)
(* batched and the last one wins; setX(prev => ...) calls are applied in   *)
(* order.  Player objects, hand arrays and split-hand objects are shared   *)
(* between the copies ([...players] is a shallow copy), so a mutation in   *)
(* place is seen by every later read.  One action below is one handler or  *)
(* one effect, from its first statement to the render that follows it.     *)
(*                                                                         *)
(* Cards.  generateDeck() returns a shuffled shoe.  The shoe is held as    *)
(* `shoe`, the ranks of its cards from the front as far as they have been  *)
(* looked at, and `deck`, the number of cards already shifted off the      *)
(* front: the deck array of the code is the shoe from position deck + 1    *)
(* on.  A card is its position in the shoe, so that one card held by two   *)
(* hands can be told from two cards of one rank.  The rank of a card not   *)
(* yet looked at is chosen when it is first drawn (any order of the shoe   *)
(* is a possible shuffle).                                                 *)
(*                                                                         *)
(* Money.  The payout multiplies a bet by 2.5, so chips may be a multiple  *)
(* of one half.  Every amount (chips, bet) is held in half-chips:          *)
(* Amount(n) is n chips.                                                   *)
(***************************************************************************)
EXTENDS Integers, Sequences, FiniteSets, TLC

VARIABLES
    players,          \* players[id]: [hand, chips, bet], id 1 Bot 1, 2 Bot 2, 3 You, 4 Bot 3
    shoe,             \* ranks of the generated shoe, front first, as far as revealed
    deck,             \* number of cards shifted off the front of the shoe
    dealerHand,       \* the dealer's cards
    message,          \* the outcome line
    handCount,
    dealerRevealed,
    gameOver,
    runningCount,
    bettingPhase,
    dealComplete,
    humanWins,
    humanLosses,
    humanPushes,
    splitHands,       \* <<>> for null, else two records [hand, bet, completed]
    activeSplitIndex, \* 0 or 1, as in the code
    sessionAnalysis,  \* <<>> for "", else <<wins, losses, pushes>> of the summary
    alertShown,       \* the betting panel's alert() was raised by the last submit
    effectPending,    \* the [bettingPhase] effect has still to run
    lastInput,        \* history: <<handler or effect that ran last, its argument>>
    hist,             \* history of the current hand (see StartHist)
    call              \* a function called on its own: [fn, args, done, result, shifted]

vars == <<players, shoe, deck, dealerHand, message, handCount, dealerRevealed,
          gameOver, runningCount, bettingPhase, dealComplete, humanWins,
          humanLosses, humanPushes, splitHands, activeSplitIndex,
          sessionAnalysis, alertShown, effectPending, lastInput, hist, call>>

----------------------------------------------------------------------------
(* Bounds of the model *)

\* Deals explored in one behaviour.
MaxHands == 1
\* A hand (player, split hand) takes no further hit once it holds this many cards.
MaxHandLen == 3
\* Dealer resolutions explored between two deals.
MaxResolutions == 2

\* The shoes explored: the ranks that the card at position pos of a freshly
\* generated shoe may have.  Cards 3 and 7 are the human's two cards.
ShoeRanks(pos) ==
    IF pos = 3 THEN {"7", "10", "A"}
    ELSE IF pos = 7 THEN {"7", "10", "K", "A"}
    ELSE {"7", "10"}

\* Texts submitted in the betting panel (digits only: the input's pattern
\* attribute is [0-9]* and the form validates before onSubmit runs).
BetInputs ==
    { <<>>, <<"0">>, <<"7">>, <<"0", "7">>, <<"7", "0", "0">>, <<"7", "0", "0", "0">> }

----------------------------------------------------------------------------
(* Program constants *)

NumDecks == 6
CardsPerDeck == 52
InitialChips == 1000
BaseBet == 50
DealerStandsAt == 17
HandsPerSession == 5
HumanId == 3

ShoeSize == NumDecks * CardsPerDeck

Amount(n) == 2 * n

Ranks == {"2", "3", "4", "5", "6", "7", "8", "9", "10", "J", "Q", "K", "A"}

PlayerIds == 1 .. 4
BotIds == {1, 2, 4}

Null == <<>>

----------------------------------------------------------------------------
(* Helpers of BlackjackTable and utils *)

\* parseInt(rank, 10) on the ranks "2" .. "10"
RankNumber(rank) ==
    CASE rank = "2" -> 2 [] rank = "3" -> 3 [] rank = "4" -> 4 [] rank = "5" -> 5
      [] rank = "6" -> 6 [] rank = "7" -> 7 [] rank = "8" -> 8 [] rank = "9" -> 9
      [] rank = "10" -> 10

getCardValue(rank) ==
    IF rank = "A" THEN 11
    ELSE IF rank \in {"K", "Q", "J"} THEN 10
    ELSE RankNumber(rank)

\* The ranks of a hand of cards of the shoe sh.
RanksOf(hand, sh) == [i \in 1 .. Len(hand) |-> sh[hand[i]]]

RECURSIVE SumValues(_)
SumValues(rs) ==
    IF rs = <<>> THEN 0 ELSE getCardValue(Head(rs)) + SumValues(Tail(rs))

Aces(rs) == Cardinality({i \in 1 .. Len(rs) : rs[i] = "A"})

RECURSIVE SoftenAces(_, _)
SoftenAces(total, aces) ==
    IF total > 21 /\ aces > 0 THEN SoftenAces(total - 10, aces - 1) ELSE total

\* calculateTotal with `if` in place of `while`, so that at most one ace is
\* counted as 1: the variant that C18 tells apart from the program's loop.
calculateTotalOneAce(rs) ==
    IF SumValues(rs) > 21 /\ Aces(rs) > 0 THEN SumValues(rs) - 10 ELSE SumValues(rs)

\* calculateTotal over the ranks of a hand
calculateTotal(rs) == SoftenAces(SumValues(rs), Aces(rs))

Total(hand, sh) == calculateTotal(RanksOf(hand, sh))

\* canSplit without the comparison of the two values: the variant that C11
\* tells apart from the program's test.
canSplitAnyPair(rs) == Len(rs) = 2

canSplit(rs) == Len(rs) = 2 /\ getCardValue(rs[1]) = getCardValue(rs[2])

\* The change of the running count for one card (updateRunningCountForCards).
HiLo(rank) ==
    IF rank \in {"2", "3", "4", "5", "6"} THEN 1
    ELSE IF rank \in {"10", "J", "Q", "K", "A"} THEN -1
    ELSE 0

RECURSIVE CountChange(_, _)
CountChange(cards, sh) ==
    IF cards = <<>> THEN 0 ELSE HiLo(sh[Head(cards)]) + CountChange(Tail(cards), sh)

Min(a, b) == IF a < b THEN a ELSE b

\* calculateBotBet that does not look at the running count: the variant that
\* C29 tells apart from the program's bet.
calculateBotBetBase(chips, count) == Min(chips, Amount(BaseBet))

calculateBotBet(chips, count) ==
    IF count >= 2 THEN Min(chips, Amount(BaseBet) * 2) ELSE Min(chips, Amount(BaseBet))

\* bot1Play with the running count examined before the double: the variant
\* that C21 tells apart from the program's order of tests.
bot1PlayCountFirst(rs, count) ==
    LET total == calculateTotal(rs) IN
    IF count >= 2 THEN (IF total < 18 THEN "hit" ELSE "stand")
    ELSE IF count <= -2 THEN (IF total < 15 THEN "hit" ELSE "stand")
    ELSE IF Len(rs) = 2 /\ (total = 10 \/ total = 11) THEN "double"
    ELSE (IF total < 17 THEN "hit" ELSE "stand")

\* bot1Play(hand, dealerUpcard, runningCount); dealerUpcard is not read
bot1Play(rs, count) ==
    LET total == calculateTotal(rs) IN
    IF Len(rs) = 2 /\ (total = 10 \/ total = 11) THEN "double"
    ELSE IF count >= 2 THEN (IF total < 18 THEN "hit" ELSE "stand")
    ELSE IF count <= -2 THEN (IF total < 15 THEN "hit" ELSE "stand")
    ELSE (IF total < 17 THEN "hit" ELSE "stand")

bot2Play(rs, count) ==
    LET total == calculateTotal(rs) IN
    IF Len(rs) = 2 /\ (total = 10 \/ total = 11) THEN "double"
    ELSE IF count > 0 THEN (IF total < 16 THEN "hit" ELSE "stand")
    ELSE IF count < 0 THEN (IF total < 14 THEN "hit" ELSE "stand")
    ELSE (IF total < 16 THEN "hit" ELSE "stand")

\* bot3Play; below is TRUE when Math.random() < baseProbability
bot3Play(rs, below) ==
    LET total == calculateTotal(rs) IN
    IF Len(rs) = 2 /\ (total = 10 \/ total = 11) THEN "double"
    ELSE IF below THEN (IF total < 17 THEN "hit" ELSE "stand")
    ELSE (IF total < 15 THEN "hit" ELSE "stand")

----------------------------------------------------------------------------
(* The betting panel *)

DigitValue(ch) ==
    CASE ch = "0" -> 0 [] ch = "1" -> 1 [] ch = "2" -> 2 [] ch = "3" -> 3
      [] ch = "4" -> 4 [] ch = "5" -> 5 [] ch = "6" -> 6 [] ch = "7" -> 7
      [] ch = "8" -> 8 [] ch = "9" -> 9

NaN == -1

RECURSIVE DigitsValue(_, _)
DigitsValue(text, acc) ==
    IF text = <<>> THEN acc ELSE DigitsValue(Tail(text), 10 * acc + DigitValue(Head(text)))

\* parseInt(betAmount, 10) of a text of digits: NaN for the empty text
parseInt(text) == IF text = <<>> THEN NaN ELSE DigitsValue(text, 0)

\* The condition of handleSubmit without its upper bound: the variant that C9
\* tells apart from the program's condition.
BetValidAnyAmount(parsedBet, chips) == parsedBet # NaN /\ parsedBet > 0

\* the condition of BettingPanel.handleSubmit; chips in chips, not half-chips
BetValid(parsedBet, chips) ==
    parsedBet # NaN /\ parsedBet > 0 /\ Amount(parsedBet) <= chips

----------------------------------------------------------------------------
(* The shoe *)

\* The shoes in which the card at position pos has been looked at.
Reveal(sh, pos) ==
    IF pos <= Len(sh) THEN {sh} ELSE {Append(sh, r) : r \in ShoeRanks(pos)}

\* newDeck.shift() on the deck that has lost its first d cards: the card (its
\* position in the shoe; 0 for undefined, the shoe being empty) and the shoe
\* with that card looked at.
Shift(sh, d) ==
    IF d < ShoeSize
    THEN {[card |-> d + 1, shoe |-> s] : s \in Reveal(sh, d + 1)}
    ELSE {[card |-> 0, shoe |-> sh]}

Push(hand, card) == IF card # 0 THEN Append(hand, card) ELSE hand

CardCount(card, sh) == IF card # 0 THEN HiLo(sh[card]) ELSE 0

\* History of the current hand: deals so far, runs of revealDealerHand and
\* turns of Bot 3 since the deal, and <<runningCount, handCount, humanWins,
\* humanLosses, humanPushes>> as they were when the hand was dealt.
StartHist == [hands |-> 0, reveals |-> 0, bot3Turns |-> 0, atDeal |-> <<0, 0, 0, 0, 0>>]

\* No function is being called on its own.
NoCall == [fn |-> "none", args |-> <<>>, done |-> TRUE, result |-> <<>>, shifted |-> 0]

\* The component as mounted.
Mounted ==
    /\ players = [id \in PlayerIds |-> [hand |-> <<>>, chips |-> Amount(InitialChips), bet |-> 0]]
    /\ shoe = <<>>
    /\ deck = 0
    /\ dealerHand = <<>>
    /\ message = ""
    /\ handCount = 0
    /\ dealerRevealed = FALSE
    /\ gameOver = FALSE
    /\ runningCount = 0
    /\ bettingPhase = TRUE
    /\ dealComplete = FALSE
    /\ humanWins = 0
    /\ humanLosses = 0
    /\ humanPushes = 0
    /\ splitHands = Null
    /\ activeSplitIndex = 0
    /\ sessionAnalysis = <<>>
    /\ alertShown = FALSE
    /\ effectPending = FALSE
    /\ lastInput = <<"mount", <<>>>>
    /\ hist = StartHist

Init == Mounted /\ call = NoCall

----------------------------------------------------------------------------
(* Betting *)

\* onConfirmBet(betAmount)
onConfirmBet(betAmount) ==
    /\ players' = [players EXCEPT ![HumanId].bet = Amount(betAmount),
                                  ![HumanId].chips = @ - Amount(betAmount)]
    /\ bettingPhase' = FALSE
    /\ effectPending' = TRUE

\* BettingPanel.handleSubmit with the text `text` in the input
SubmitBet(text) ==
    /\ bettingPhase /\ ~effectPending
    /\ hist.hands < MaxHands
    /\ LET parsedBet == parseInt(text) IN
       IF BetValid(parsedBet, players[HumanId].chips)
       THEN /\ onConfirmBet(parsedBet)
            /\ alertShown' = FALSE
       ELSE /\ alertShown' = TRUE
            /\ UNCHANGED <<players, bettingPhase, effectPending>>
    /\ lastInput' = <<"bet", text>>
    /\ UNCHANGED <<shoe, deck, dealerHand, message, handCount, dealerRevealed, gameOver,
                   runningCount, dealComplete, humanWins, humanLosses, humanPushes,
                   splitHands, activeSplitIndex, sessionAnalysis, hist, call>>

----------------------------------------------------------------------------
(* Dealing *)

\* The cards dealt to the human (3, 7) and to the dealer (9, 10).
Seq10 == {own \in [{3, 7, 9, 10} -> Ranks] : \A pos \in {3, 7, 9, 10} : own[pos] \in ShoeRanks(pos)}

\* The first ten cards of a freshly generated shoe, in the shoes explored:
\* every choice of ShoeRanks for the human's cards (3, 7) and the dealer's
\* (9, 10), and a pair for each bot (cards id and id + 4).
DealtShoes ==
    { [pos \in 1 .. 10 |->
          IF pos \in {3, 7, 9, 10} THEN own[pos]
          ELSE bots[IF pos > 4 THEN pos - 4 ELSE pos]] :
      own \in Seq10, bots \in {b \in [BotIds -> Ranks] : \A id \in BotIds : b[id] \in ShoeRanks(id)} }

\* startNewHand without setSplitHands(null): the variant that C24 tells apart
\* from the program's deal.
startNewHandKeepingSplit(sh) ==
    LET botBet(id) == calculateBotBet(players[id].chips, runningCount)
        \* round r (0, 1) gives card 4 r + id to player id; the dealer gets 9 and 10
        newPlayers ==
            [id \in PlayerIds |->
                [hand |-> <<id, 4 + id>>,
                 chips |-> IF id \in BotIds THEN players[id].chips - botBet(id)
                           ELSE players[id].chips,
                 bet |-> IF id \in BotIds THEN botBet(id) ELSE players[id].bet]]
    IN
    /\ players' = newPlayers
    /\ UNCHANGED splitHands
    /\ dealerHand' = <<9, 10>>
    /\ shoe' = sh
    /\ deck' = 10
    /\ runningCount' = runningCount + CountChange(<<1, 2, 3, 4, 5, 6, 7, 8, 9, 10>>, sh)
    /\ dealerRevealed' = FALSE
    /\ message' = "Bots' Turn..."
    /\ gameOver' = FALSE

\* startNewHand with newDeck = sh
startNewHand(sh) ==
    LET botBet(id) == calculateBotBet(players[id].chips, runningCount)
        \* round r (0, 1) gives card 4 r + id to player id; the dealer gets 9 and 10
        newPlayers ==
            [id \in PlayerIds |->
                [hand |-> <<id, 4 + id>>,
                 chips |-> IF id \in BotIds THEN players[id].chips - botBet(id)
                           ELSE players[id].chips,
                 bet |-> IF id \in BotIds THEN botBet(id) ELSE players[id].bet]]
    IN
    /\ players' = newPlayers
    /\ splitHands' = Null
    /\ dealerHand' = <<9, 10>>
    /\ shoe' = sh
    /\ deck' = 10
    /\ runningCount' = runningCount + CountChange(<<1, 2, 3, 4, 5, 6, 7, 8, 9, 10>>, sh)
    /\ dealerRevealed' = FALSE
    /\ message' = "Bots' Turn..."
    /\ gameOver' = FALSE

\* useEffect(..., [bettingPhase]).  The effect also runs when nextHand sets
\* bettingPhase (and on mount) and then does nothing: only its run after
\* onConfirmBet is a step.
\* shoes are the shoes that generateDeck() may return, as far as the deal
\* looks at them.
BettingPhaseEffectOn(shoes) ==
    /\ effectPending
    /\ effectPending' = FALSE
    /\ lastInput' = <<"bettingPhaseEffect", <<>>>>
    /\ IF ~bettingPhase
       THEN /\ \E sh \in shoes : startNewHand(sh)
            /\ dealComplete' = TRUE
            /\ hist' = [hands |-> hist.hands + 1, reveals |-> 0, bot3Turns |-> 0,
                        atDeal |-> <<runningCount, handCount, humanWins, humanLosses,
                                     humanPushes>>]
       ELSE UNCHANGED <<players, splitHands, dealerHand, shoe, deck, runningCount,
                        dealerRevealed, message, gameOver, dealComplete, hist>>
    /\ UNCHANGED <<handCount, bettingPhase, humanWins, humanLosses, humanPushes,
                   activeSplitIndex, sessionAnalysis, alertShown, call>>

BettingPhaseEffect == BettingPhaseEffectOn(DealtShoes)

----------------------------------------------------------------------------
(* Bots *)

BotDraws(p, action) == (action = "double" /\ p.chips >= p.bet) \/ action = "hit"

\* One bot's block of handleBotsTurn / handleBotsTurnAfterHuman: the bot p
\* after `action`, c being the result of newDeck.shift().
BotMove(p, action, c) ==
    IF action = "double" /\ p.chips >= p.bet
    THEN [hand |-> Push(p.hand, c.card), chips |-> p.chips - p.bet, bet |-> p.bet * 2]
    ELSE IF action = "hit"
    THEN [p EXCEPT !.hand = Push(p.hand, c.card)]
    ELSE p

\* handleBotsTurn, run by useEffect(..., [dealComplete])
handleBotsTurn ==
    /\ dealComplete
    /\ ~effectPending
    /\ LET action1 == bot1Play(RanksOf(players[1].hand, shoe), runningCount)
           action2 == bot2Play(RanksOf(players[2].hand, shoe), runningCount)
           drew1 == BotDraws(players[1], action1)
           drew2 == BotDraws(players[2], action2)
       IN
       \* both blocks copy and shift the deck of this render
       \E c \in Shift(shoe, deck) :
          /\ players' = [players EXCEPT ![1] = BotMove(@, action1, c),
                                        ![2] = BotMove(@, action2, c)]
          /\ runningCount' = runningCount
                               + (IF drew1 THEN CardCount(c.card, c.shoe) ELSE 0)
                               + (IF drew2 THEN CardCount(c.card, c.shoe) ELSE 0)
          /\ IF (drew1 \/ drew2) /\ c.card # 0
             THEN deck' = deck + 1 /\ shoe' = c.shoe
             ELSE UNCHANGED <<deck, shoe>>
    /\ message' = "Your Turn"
    /\ dealComplete' = FALSE
    /\ lastInput' = <<"dealCompleteEffect", <<>>>>
    /\ UNCHANGED <<dealerHand, handCount, dealerRevealed, gameOver, bettingPhase,
                   humanWins, humanLosses, humanPushes, splitHands, activeSplitIndex,
                   sessionAnalysis, alertShown, effectPending, hist, call>>

----------------------------------------------------------------------------
(* Dealer resolution *)

\* The while loop of revealDealerHand with `dealerTotal < 16`: the variant that
\* C23 tells apart from the program's loop.
RECURSIVE DealerPlayBelow16(_, _, _)
DealerPlayBelow16(h, d, sh) ==
    IF Total(h, sh) < 16 /\ d < ShoeSize
    THEN UNION {DealerPlayBelow16(Push(h, c.card), d + 1, c.shoe) : c \in Shift(sh, d)}
    ELSE {[hand |-> h, deck |-> d, shoe |-> sh]}

\* The while loop of revealDealerHand from the dealer hand h and the deck that
\* has lost d cards: every way it can end, as [hand, deck, shoe].
RECURSIVE DealerPlay(_, _, _)
DealerPlay(h, d, sh) ==
    IF Total(h, sh) < DealerStandsAt /\ d < ShoeSize
    THEN UNION {DealerPlay(Push(h, c.card), d + 1, c.shoe) : c \in Shift(sh, d)}
    ELSE {[hand |-> h, deck |-> d, shoe |-> sh]}

\* The outcome line of revealDealerHand with the dealer's total examined before
\* the player's: the variant that C4 tells apart from the program's order of tests.
OutcomeDealerFirst(playerTotal, dealerTotal) ==
    IF dealerTotal > 21 THEN "Dealer busts, you win!"
    ELSE IF playerTotal > 21 THEN "Bust"
    ELSE IF dealerTotal > playerTotal THEN "Dealer wins!"
    ELSE IF dealerTotal < playerTotal THEN "You win!"
    ELSE "Push!"

\* The outcome line of revealDealerHand.
Outcome(playerTotal, dealerTotal) ==
    IF playerTotal > 21 THEN "Bust"
    ELSE IF dealerTotal > 21 THEN "Dealer busts, you win!"
    ELSE IF dealerTotal > playerTotal THEN "Dealer wins!"
    ELSE IF dealerTotal < playerTotal THEN "You win!"
    ELSE "Push!"

Won(outcome) == outcome = "You win!" \/ outcome = "Dealer busts, you win!"

\* What revealDealerHand adds to the human's chips (currentBet * 2.5 is exact:
\* a bet is a whole number of chips, an even number of half-chips).
Payout(outcome, playerTotal, currentBet) ==
    IF Won(outcome)
    THEN (IF playerTotal = 21 THEN (currentBet * 5) \div 2 ELSE currentBet * 2)
    ELSE IF outcome = "Push!" THEN currentBet
    ELSE 0

\* revealDealerHand, called in a handler that has so far left the players as
\* pl (mutated in place), looked at the shoe as far as sh and queued `counted`
\* on the running count; b3 is 1 when the handler ran Bot 3's turn.  deck and
\* dealerHand are those of the handler's render.
revealDealerHand(pl, sh, counted, b3) ==
    \E o \in DealerPlay(dealerHand, deck, sh) :
        LET dealerTotal == Total(o.hand, o.shoe)
            playerTotal == Total(pl[HumanId].hand, o.shoe)
            outcome == Outcome(playerTotal, dealerTotal)
            currentBet == pl[HumanId].bet
            drawn == SubSeq(o.hand, Len(dealerHand) + 1, Len(o.hand))
        IN
        /\ dealerRevealed' = TRUE
        /\ dealerHand' = o.hand
        /\ deck' = o.deck
        /\ shoe' = o.shoe
        /\ runningCount' = runningCount + counted + CountChange(drawn, o.shoe)
        /\ message' = outcome
        /\ players' = [pl EXCEPT ![HumanId].chips = @ + Payout(outcome, playerTotal, currentBet)]
        /\ humanWins' = humanWins + (IF Won(outcome) THEN 1 ELSE 0)
        /\ humanPushes' = humanPushes + (IF outcome = "Push!" THEN 1 ELSE 0)
        /\ humanLosses' = humanLosses + (IF ~Won(outcome) /\ outcome # "Push!" THEN 1 ELSE 0)
        /\ gameOver' = TRUE
        /\ handCount' = handCount + 1
        /\ hist' = [hist EXCEPT !.reveals = @ + 1, !.bot3Turns = @ + b3]

\* handleBotsTurnAfterHuman, called in a handler with pl, sh, counted as above.
handleBotsTurnAfterHuman(pl, sh, counted) ==
    \E below \in BOOLEAN :
    \E c \in Shift(sh, deck) :
        LET action == bot3Play(RanksOf(pl[4].hand, sh), below)
            drew == BotDraws(pl[4], action) /\ c.card # 0
        IN
        revealDealerHand([pl EXCEPT ![4] = BotMove(@, action, c)],
                         IF drew THEN c.shoe ELSE sh,
                         counted + (IF drew THEN CardCount(c.card, c.shoe) ELSE 0),
                         1)

----------------------------------------------------------------------------
(* The human's moves *)

\* No effect is waiting and the table (not the betting panel) is shown.
TableShown == ~bettingPhase /\ ~effectPending /\ ~dealComplete

\* The Hit / Stand / Double Down buttons are rendered.
MoveButtons == TableShown /\ ~gameOver /\ splitHands = Null

\* The Next Hand button is rendered.
NextHandButton == TableShown /\ (gameOver \/ splitHands # Null)

\* The Split button is rendered.
SplitButton ==
    /\ TableShown
    /\ splitHands = Null
    /\ Len(players[HumanId].hand) = 2
    /\ canSplit(RanksOf(players[HumanId].hand, shoe))

\* The controls of the active split hand are rendered.
SplitControls == TableShown /\ splitHands # Null

Untouched ==
    UNCHANGED <<bettingPhase, dealComplete, sessionAnalysis, alertShown, effectPending, call>>

NoResolution ==
    UNCHANGED <<dealerHand, message, handCount, dealerRevealed, gameOver, humanWins,
                humanLosses, humanPushes, hist>>

\* handlePlayerMove("hit")
PlayerHit ==
    /\ MoveButtons
    /\ Len(players[HumanId].hand) < MaxHandLen
    /\ lastInput' = <<"hit", <<>>>>
    /\ \E c \in Shift(shoe, deck) :
          LET pl == [players EXCEPT ![HumanId].hand = Push(@, c.card)] IN
          IF c.card # 0 /\ Total(pl[HumanId].hand, c.shoe) > 21
          THEN revealDealerHand(pl, c.shoe, CardCount(c.card, c.shoe), 0)
          ELSE /\ players' = pl
               /\ shoe' = c.shoe
               /\ deck' = IF c.card # 0 THEN deck + 1 ELSE deck
               /\ runningCount' = runningCount + CardCount(c.card, c.shoe)
               /\ NoResolution
    /\ UNCHANGED <<splitHands, activeSplitIndex>>
    /\ Untouched

\* handlePlayerMove("stand")
PlayerStand ==
    /\ MoveButtons
    /\ lastInput' = <<"stand", <<>>>>
    /\ handleBotsTurnAfterHuman(players, shoe, 0)
    /\ UNCHANGED <<splitHands, activeSplitIndex>>
    /\ Untouched

\* The double that looks at the number of cards only: the variant that C10
\* tells apart from the program's refusal.
CanDoubleAnyChips(human) == Len(human.hand) = 2

\* The conditions under which handlePlayerMove("double") goes ahead.
CanDouble(human) == Len(human.hand) = 2 /\ ~(human.chips < human.bet)

\* handlePlayerMove("double")
PlayerDouble ==
    /\ MoveButtons
    /\ lastInput' = <<"double", <<>>>>
    /\ LET human == players[HumanId]
           extraBet == human.bet
       IN
       IF CanDouble(human)
       THEN \E c \in Shift(shoe, deck) :
               handleBotsTurnAfterHuman(
                   [players EXCEPT ![HumanId] = [hand |-> Push(human.hand, c.card),
                                                 chips |-> human.chips - extraBet,
                                                 bet |-> human.bet * 2]],
                   c.shoe, CardCount(c.card, c.shoe))
       ELSE \* "Not enough chips to double down." / "... only allowed on your initial 2 cards."
            /\ UNCHANGED <<players, shoe, deck, runningCount>>
            /\ NoResolution
    /\ UNCHANGED <<splitHands, activeSplitIndex>>
    /\ Untouched

\* handlePlayerMove("split"), that is handleSplit, as a call of the handler
handleSplitCall ==
    /\ hist.reveals < MaxResolutions
    /\ lastInput' = <<"split", <<>>>>
    /\ LET human == players[HumanId] IN
       IF Len(human.hand) = 2 /\ canSplit(RanksOf(human.hand, shoe))
       THEN IF human.chips < human.bet
            THEN \* "Not enough chips to split."
                 UNCHANGED <<players, splitHands, activeSplitIndex>>
            ELSE /\ players' = [players EXCEPT ![HumanId].chips = @ - human.bet,
                                              ![HumanId].hand = <<>>]
                 /\ splitHands' = << [hand |-> <<human.hand[1]>>, bet |-> human.bet,
                                      completed |-> FALSE],
                                     [hand |-> <<human.hand[2]>>, bet |-> human.bet,
                                      completed |-> FALSE] >>
                 /\ activeSplitIndex' = 0
       ELSE \* "Cannot split: Your two cards do not have the same value."
            UNCHANGED <<players, splitHands, activeSplitIndex>>
    /\ UNCHANGED <<shoe, deck, runningCount>>
    /\ NoResolution
    /\ Untouched

\* A click on the Split button.
handleSplit == SplitButton /\ handleSplitCall

\* handlePlayerMove("split") called while the Split button is not rendered.
SplitRequested == TableShown /\ ~SplitButton /\ handleSplitCall

\* The end of a completed split hand in handleSplitMove: the next hand becomes
\* active, or (last hand) Bot 3 and the dealer play.  sp, pl, sh, counted are
\* what the handler has made so far; drew says a card was shifted off.
SplitHandDone(sp, pl, sh, counted, drew) ==
    /\ splitHands' = sp
    /\ IF activeSplitIndex < Len(splitHands) - 1
       THEN /\ activeSplitIndex' = activeSplitIndex + 1
            /\ players' = pl
            /\ shoe' = sh
            /\ deck' = IF drew THEN deck + 1 ELSE deck
            /\ runningCount' = runningCount + counted
            /\ NoResolution
       ELSE /\ handleBotsTurnAfterHuman(pl, sh, counted)
            /\ UNCHANGED activeSplitIndex

\* The double on a split hand that does not look at the number of cards: the
\* variant that C12 tells apart from the program's test.
CanDoubleSplitAnyCards(currentHand, chips, currentBet) == ~(chips < currentBet)

\* The conditions under which handleSplitMove("double") goes ahead.
CanDoubleSplit(currentHand, chips, currentBet) ==
    Len(currentHand) = 1 /\ ~(chips < currentBet)

\* handleSplitMove(action)
handleSplitMove(action) ==
    /\ SplitControls
    /\ hist.reveals < MaxResolutions
    /\ lastInput' = <<"splitMove", <<action>>>>
    /\ LET i == activeSplitIndex + 1
           currentHand == splitHands[i].hand
           currentBet == splitHands[i].bet
       IN
       CASE action = "hit" ->
              /\ Len(currentHand) < MaxHandLen
              /\ \E c \in Shift(shoe, deck) :
                    LET sp == [splitHands EXCEPT ![i].hand = Push(@, c.card)]
                        counted == CardCount(c.card, c.shoe)
                    IN
                    IF Total(sp[i].hand, c.shoe) > 21
                    THEN SplitHandDone([sp EXCEPT ![i].completed = TRUE], players,
                                       c.shoe, counted, c.card # 0)
                    ELSE /\ splitHands' = sp
                         /\ shoe' = c.shoe
                         /\ deck' = IF c.card # 0 THEN deck + 1 ELSE deck
                         /\ runningCount' = runningCount + counted
                         /\ UNCHANGED <<players, activeSplitIndex>>
                         /\ NoResolution
         [] action = "stand" ->
              SplitHandDone([splitHands EXCEPT ![i].completed = TRUE], players, shoe, 0, FALSE)
         [] action = "double" ->
              IF CanDoubleSplit(currentHand, players[HumanId].chips, currentBet)
              THEN \E c \in Shift(shoe, deck) :
                      SplitHandDone(
                          [splitHands EXCEPT ![i] = [hand |-> Push(currentHand, c.card),
                                                     bet |-> currentBet * 2,
                                                     completed |-> TRUE]],
                          [players EXCEPT ![HumanId].chips = @ - currentBet],
                          c.shoe, CardCount(c.card, c.shoe), c.card # 0)
              ELSE \* refused: not enough chips, or the hand holds more than one card
                   /\ UNCHANGED <<players, splitHands, activeSplitIndex, shoe, deck, runningCount>>
                   /\ NoResolution
    /\ Untouched

----------------------------------------------------------------------------
(* Next hand *)

\* The test of nextHand that lets the sixth hand start before the summary: the
\* variant that C15 tells apart from the program's test.
SessionCompleteLate(count) == count > HandsPerSession

\* The test of nextHand.
SessionComplete(count) == count >= HandsPerSession

nextHand ==
    /\ NextHandButton
    /\ lastInput' = <<"nextHand", <<>>>>
    /\ IF SessionComplete(handCount)
       THEN /\ sessionAnalysis' = <<humanWins, humanLosses, humanPushes>>
            /\ handCount' = 0
            /\ runningCount' = 0
            /\ UNCHANGED <<bettingPhase, effectPending>>
       ELSE /\ bettingPhase' = TRUE
            /\ UNCHANGED <<sessionAnalysis, handCount, runningCount, effectPending>>
    /\ UNCHANGED <<players, shoe, deck, dealerHand, message, dealerRevealed, gameOver,
                   dealComplete, humanWins, humanLosses, humanPushes, splitHands,
                   activeSplitIndex, alertShown, hist, call>>

Next ==
    \/ \E text \in BetInputs : SubmitBet(text)
    \/ BettingPhaseEffect
    \/ handleBotsTurn
    \/ PlayerHit
    \/ PlayerStand
    \/ PlayerDouble
    \/ handleSplit
    \/ \E action \in {"hit", "stand", "double"} : handleSplitMove(action)
    \/ nextHand

Spec == Init /\ [][Next]_vars

\* A hit or a stand of the human, on the hand or on the active split hand.
HumanMove ==
    \/ PlayerHit
    \/ PlayerStand
    \/ handleSplitMove("hit")
    \/ handleSplitMove("stand")

\* The shoes explored under fairness: every card a 7, but for the human's first
\* card, a 7 or a 10.
FairShoes == {[pos \in 1 .. 10 |-> IF pos = 3 THEN rank ELSE "7"] : rank \in {"7", "10"}}

BettingPhaseEffectFair == BettingPhaseEffectOn(FairShoes)

NextFair ==
    \/ \E text \in BetInputs : SubmitBet(text)
    \/ BettingPhaseEffectFair
    \/ handleBotsTurn
    \/ PlayerHit
    \/ PlayerStand
    \/ PlayerDouble
    \/ handleSplit
    \/ \E action \in {"hit", "stand", "double"} : handleSplitMove(action)
    \/ nextHand

\* React runs a pending effect after the render that scheduled it; the human
\* keeps submitting hit or stand while the buttons are rendered.
SpecFair ==
    /\ Init
    /\ [][NextFair]_vars
    /\ WF_vars(BettingPhaseEffectFair)
    /\ WF_vars(handleBotsTurn)
    /\ WF_vars(HumanMove)

\* The betting panel after n hands in each of which every card was a 7, the
\* human bet 7 and stood on 14, the three bots hit to 21 and the dealer drew to
\* 21 (running count 0, n losses), and Next Hand was clicked.
AfterHands(n) ==
    /\ players = [id \in PlayerIds |->
                    IF id = HumanId
                    THEN [hand |-> <<3, 7>>, chips |-> Amount(InitialChips - 7 * n),
                          bet |-> Amount(7)]
                    ELSE [hand |-> <<id, id + 4, IF id = 4 THEN 12 ELSE 11>>,
                          chips |-> Amount(InitialChips - BaseBet * n),
                          bet |-> Amount(BaseBet)]]
    /\ shoe = [pos \in 1 .. 12 |-> "7"]
    /\ deck = 12
    /\ dealerHand = <<9, 10, 12>>
    /\ message = "Dealer wins!"
    /\ handCount = n
    /\ dealerRevealed = TRUE
    /\ gameOver = TRUE
    /\ runningCount = 0
    /\ bettingPhase = TRUE
    /\ dealComplete = FALSE
    /\ humanWins = 0
    /\ humanLosses = n
    /\ humanPushes = 0
    /\ splitHands = Null
    /\ activeSplitIndex = 0
    /\ sessionAnalysis = <<>>
    /\ alertShown = FALSE
    /\ effectPending = FALSE
    /\ lastInput = <<"nextHand", <<>>>>

\* The last hand of a session of HandsPerSession hands.
InitLastHand == AfterHands(HandsPerSession - 1) /\ hist = StartHist /\ call = NoCall

SpecLastHand == InitLastHand /\ [][Next]_vars

\* The session with the handlers also called where no button offers them.
NextHandlers == Next \/ SplitRequested

SpecHandlers == Init /\ [][NextHandlers]_vars

\* The betting panel after a first hand in which the first thirteen cards of
\* the shoe were 5s: the human bet 493, the three bots doubled on their 10
\* (Bot 1 and Bot 2 both took card 11, Bot 3 card 12), the human split the 5s
\* and stood on both hands, the dealer drew cards 12 and 13 to 20 and won
\* against the human's emptied hand, and Next Hand was clicked.
AfterSplitHand ==
    /\ players = [id \in PlayerIds |->
                    IF id = HumanId
                    THEN [hand |-> <<>>, chips |-> Amount(InitialChips - 2 * 493),
                          bet |-> Amount(493)]
                    ELSE [hand |-> <<id, id + 4, IF id = 4 THEN 12 ELSE 11>>,
                          chips |-> Amount(InitialChips - 2 * BaseBet),
                          bet |-> Amount(2 * BaseBet)]]
    /\ shoe = [pos \in 1 .. 13 |-> "5"]
    /\ deck = 13
    /\ dealerHand = <<9, 10, 12, 13>>
    /\ message = "Dealer wins!"
    /\ handCount = 1
    /\ dealerRevealed = TRUE
    /\ gameOver = TRUE
    /\ runningCount = 15
    /\ bettingPhase = TRUE
    /\ dealComplete = FALSE
    /\ humanWins = 0
    /\ humanLosses = 1
    /\ humanPushes = 0
    /\ splitHands = << [hand |-> <<3>>, bet |-> Amount(493), completed |-> TRUE],
                       [hand |-> <<7>>, bet |-> Amount(493), completed |-> TRUE] >>
    /\ activeSplitIndex = 1
    /\ sessionAnalysis = <<>>
    /\ alertShown = FALSE
    /\ effectPending = FALSE
    /\ lastInput = <<"nextHand", <<>>>>

\* The shoes explored in the hand that follows: the human holds 7,7 or 10,7;
\* the dealer a soft 17, a soft 13, 4, 16 or a hard 17; Bot 1 and Bot 2 a pair
\* of 5s or of 7s and Bot 3 a pair of 2s or of 5s.
RichShoes ==
    { [pos \in 1 .. 10 |->
          IF pos = 3 THEN human[1]
          ELSE IF pos = 7 THEN human[2]
          ELSE IF pos = 9 THEN dealer[1]
          ELSE IF pos = 10 THEN dealer[2]
          ELSE bots[IF pos > 4 THEN pos - 4 ELSE pos]] :
      human \in {<<"7", "7">>, <<"10", "7">>},
      dealer \in {<<"A", "6">>, <<"A", "2">>, <<"2", "2">>, <<"10", "6">>, <<"10", "7">>},
      bots \in {b \in [BotIds -> Ranks] :
                  b[1] \in {"5", "7"} /\ b[2] \in {"5", "7"} /\ b[4] \in {"2", "5"}} }

BettingPhaseEffectRich == BettingPhaseEffectOn(RichShoes)

InitSecondHand == AfterSplitHand /\ hist = StartHist /\ call = NoCall

NextSecondHand ==
    \/ \E text \in BetInputs : SubmitBet(text)
    \/ BettingPhaseEffectRich
    \/ handleBotsTurn
    \/ PlayerHit
    \/ PlayerStand
    \/ PlayerDouble
    \/ handleSplit
    \/ \E action \in {"hit", "stand", "double"} : handleSplitMove(action)
    \/ nextHand

\* The second hand of a session, after a hand with a split.
SpecSecondHand == InitSecondHand /\ [][NextSecondHand]_vars

----------------------------------------------------------------------------
(* Functions called on their own *)

\* Cards of a hand given to calculateTotal, and the ranks they are drawn from.
MaxUnitCards == 4
UnitRanks == {"A", "2", "6", "8", "9", "10", "Q"}
\* Cards of a hand given to bot1Play, and the running counts given to it:
\* -MaxCount .. MaxCount.
\* Dealer upcards given to getOptimalMove ("" when the dealer holds no card),
\* and the decks remaining given to it: 0 .. MaxDecksRemaining.
UnitUpcards == {"", "2", "3", "5", "6", "7", "10", "K", "A"}
MaxDecksRemaining == 2
MaxBotCards == 3
MaxCount == 3
\* Totals given to computeOutcome: 0 .. MaxTotal.
MaxTotal == 31
\* The shuffles explored differ from the order in which generateDeck pushed the
\* cards by the exchange of any card with one of the first FrontCards cards, or
\* by moving up to FrontCards cards from the front to the back, or both.
FrontCards == 4
\* Cards shifted off a generated shoe.
MaxShifts == 2

gameVars == <<players, shoe, deck, dealerHand, message, handCount, dealerRevealed,
              gameOver, runningCount, bettingPhase, dealComplete, humanWins,
              humanLosses, humanPushes, splitHands, activeSplitIndex,
              sessionAnalysis, alertShown, effectPending, lastInput, hist>>

Called(fn, args) == [fn |-> fn, args |-> args, done |-> FALSE, result |-> <<>>, shifted |-> 0]

UnitCalls ==
    {Called("calculateTotal", hand) :
        hand \in UNION {[1 .. n -> UnitRanks] : n \in 0 .. MaxUnitCards}}
    \cup {Called("computeOutcome", <<playerTotal, dealerTotal>>) :
        playerTotal \in 0 .. MaxTotal, dealerTotal \in 0 .. MaxTotal}
    \cup {Called("generateDeck", <<NumDecks>>)}
    \cup {Called("getOptimalMove", <<playerTotal, dealerUpcard, count, decksRemaining>>) :
        playerTotal \in 0 .. MaxTotal, dealerUpcard \in UnitUpcards,
        count \in -MaxCount .. MaxCount, decksRemaining \in 0 .. MaxDecksRemaining}
    \cup {Called("bot1Play", <<hand, count>>) :
        hand \in UNION {[1 .. n -> UnitRanks] : n \in 0 .. MaxBotCards},
        count \in -MaxCount .. MaxCount}

Returned(result) == [call EXCEPT !.done = TRUE, !.result = result]

calculateTotalCall ==
    /\ call.fn = "calculateTotal" /\ ~call.done
    /\ call' = Returned(calculateTotal(call.args))
    /\ UNCHANGED gameVars

\* computeOutcome with the dealer's total examined first: the variant that C19
\* tells apart from the program's order of tests.
computeOutcomeDealerFirst(playerTotal, dealerTotal) ==
    IF dealerTotal > 21 THEN "Win"
    ELSE IF playerTotal > 21 THEN "Bust"
    ELSE IF dealerTotal > playerTotal THEN "Lose"
    ELSE IF dealerTotal < playerTotal THEN "Win"
    ELSE "Push"

computeOutcome(playerTotal, dealerTotal) ==
    IF playerTotal > 21 THEN "Bust"
    ELSE IF dealerTotal > 21 THEN "Win"
    ELSE IF dealerTotal > playerTotal THEN "Lose"
    ELSE IF dealerTotal < playerTotal THEN "Win"
    ELSE "Push"

\* computeOutcome is called; the result is kept with the outcome that
\* revealDealerHand derives from the same totals.
computeOutcomeCall ==
    /\ call.fn = "computeOutcome" /\ ~call.done
    /\ call' = Returned(<<computeOutcome(call.args[1], call.args[2]),
                          Outcome(call.args[1], call.args[2])>>)
    /\ UNCHANGED gameVars

\* The four suit symbols of gameLogic.ts, by name, in the order of the source.
suits == <<"spades", "hearts", "diamonds", "clubs">>
ranks == <<"2", "3", "4", "5", "6", "7", "8", "9", "10", "J", "Q", "K", "A">>

\* The loops of generateDeck that leave out the first deck: the variant that
\* C20 tells apart from the program's loops.
PushedCardsFromSecondDeck(numDecks) ==
    [i \in 1 .. (numDecks - 1) * CardsPerDeck |->
        LET k == (i - 1) % CardsPerDeck IN
        [suit |-> suits[(k \div Len(ranks)) + 1], rank |-> ranks[(k % Len(ranks)) + 1]]]

\* The deck as the loops of generateDeck push it: numDecks times, suit by
\* suit, rank by rank.
PushedCards(numDecks) ==
    [i \in 1 .. numDecks * CardsPerDeck |->
        LET k == (i - 1) % CardsPerDeck IN
        [suit |-> suits[(k \div Len(ranks)) + 1], rank |-> ranks[(k % Len(ranks)) + 1]]]

Swap(cards, i, j) ==
    [k \in 1 .. Len(cards) |-> IF k = i THEN cards[j] ELSE IF k = j THEN cards[i] ELSE cards[k]]

Rotate(cards, n) ==
    [k \in 1 .. Len(cards) |-> cards[((k + n - 1) % Len(cards)) + 1]]

\* deck.sort(() => Math.random() - 0.5): the comparator is not consistent, so
\* the order is any order of the same cards; the orders explored are those
\* that FrontCards describes.
Sorted(cards) ==
    {Rotate(Swap(cards, i, j), n) :
        i \in 1 .. FrontCards, j \in 1 .. Len(cards), n \in 0 .. FrontCards}

generateDeck(numDecks) == Sorted(PushedCards(numDecks))

generateDeckCall ==
    /\ call.fn = "generateDeck" /\ ~call.done
    /\ \E newDeck \in generateDeck(call.args[1]) : call' = Returned(newDeck)
    /\ UNCHANGED gameVars

\* newDeck.shift() and setDeck(newDeck) on the generated shoe.
ShiftCall ==
    /\ call.fn = "generateDeck" /\ call.done
    /\ call.shifted < MaxShifts
    /\ call.result # <<>>
    /\ call' = [call EXCEPT !.result = Tail(@), !.shifted = @ + 1]
    /\ UNCHANGED gameVars

\* basicStrategy[`${playerTotal}_${upcard}`], upcard being a rank or "any";
\* "" where the table has no such key (undefined: falsy under ||, as "" is).
basicStrategy(playerTotal, upcard) ==
    CASE playerTotal \in 5 .. 8 /\ upcard = "any" -> "hit"
      [] playerTotal = 9 /\ upcard \in {"2", "7"} -> "hit"
      [] playerTotal = 9 /\ upcard \in {"3", "4"} -> "double_or_hit"
      [] playerTotal = 9 /\ upcard \in {"5", "6"} -> "double"
      [] playerTotal = 10 /\ upcard = "any" -> "double_or_hit"
      [] playerTotal = 11 /\ upcard = "any" -> "double"
      [] playerTotal = 12 /\ upcard \in {"2", "3", "7"} -> "hit"
      [] playerTotal = 12 /\ upcard \in {"4", "5", "6"} -> "stand"
      [] playerTotal = 13 /\ upcard \in {"2", "3", "4", "5", "6"} -> "stand"
      [] playerTotal \in {15, 16} /\ upcard = "10" -> "surrender_or_hit"
      [] playerTotal \in 17 .. 21 /\ upcard = "any" -> "stand"
      [] OTHER -> ""

\* Math.round(n / d) for d > 0: the nearest integer, a half rounded up.
RoundedQuotient(n, d) == (2 * n + d) \div (2 * d)

calculateTrueCount(count, decksRemaining) ==
    IF decksRemaining > 0 THEN RoundedQuotient(count, decksRemaining) ELSE count

getOptimalMove(playerTotal, dealerUpcard, count, decksRemaining) ==
    LET exact == basicStrategy(playerTotal, dealerUpcard)
        any == basicStrategy(playerTotal, "any")
        move == IF exact # "" THEN exact ELSE IF any # "" THEN any ELSE "hit"
        trueCount == calculateTrueCount(count, decksRemaining)
    IN
    IF trueCount >= 2 /\ move = "hit" THEN "stand"
    ELSE IF trueCount <= -2 /\ move = "stand" THEN "hit"
    ELSE move

getOptimalMoveCall ==
    /\ call.fn = "getOptimalMove" /\ ~call.done
    /\ call' = Returned(getOptimalMove(call.args[1], call.args[2], call.args[3], call.args[4]))
    /\ UNCHANGED gameVars

bot1PlayCall ==
    /\ call.fn = "bot1Play" /\ ~call.done
    /\ call' = Returned(bot1Play(call.args[1], call.args[2]))
    /\ UNCHANGED gameVars

InitUnits == Mounted /\ call \in UnitCalls

NextUnits ==
    \/ calculateTotalCall
    \/ computeOutcomeCall
    \/ generateDeckCall
    \/ ShiftCall
    \/ bot1PlayCall
    \/ getOptimalMoveCall

SpecUnits == InitUnits /\ [][NextUnits]_vars

----------------------------------------------------------------------------
(* Properties *)

\* A step in which revealDealerHand ran.
ResolutionStep == hist'.reveals = hist.reveals + 1

\* Every card held by a player, a split hand or the dealer.
HeldCards ==
    players[1].hand \o players[2].hand \o players[3].hand \o players[4].hand
        \o dealerHand
        \o (IF splitHands = Null THEN <<>> ELSE splitHands[1].hand \o splitHands[2].hand)

\* C1: at the resolution of an unsplit hand the human is paid 2.5 x the
\* current bet exactly for a win with 21 on the initial two cards, 2 x the bet
\* for every other win, the bet on a push and nothing on a loss or bust.
C1_PayoutByOutcome ==
    [][ (ResolutionStep /\ splitHands' = Null) =>
          LET playerTotal == Total(players'[HumanId].hand, shoe')
              dealerTotal == Total(dealerHand', shoe')
              bet == players'[HumanId].bet
              \* chips after the step, less chips before it, plus the extra bet
              \* a double took in the same step
              paid == players'[HumanId].chips - players[HumanId].chips
                        + (players'[HumanId].bet - players[HumanId].bet)
              win == playerTotal <= 21 /\ (dealerTotal > 21 \/ dealerTotal < playerTotal)
              push == playerTotal <= 21 /\ dealerTotal = playerTotal
              natural == playerTotal = 21 /\ Len(players'[HumanId].hand) = 2
          IN
          paid = (IF win THEN (IF natural THEN (5 * bet) \div 2 ELSE 2 * bet)
                  ELSE IF push THEN bet
                  ELSE 0) ]_vars

\* C2: the cards held by the players, the split hands and the dealer are
\* pairwise different cards and are exactly the cards that have left the shoe,
\* so that with the cards left in the shoe they are the shoe generated at the
\* deal.
C2_EveryCardHeldOnce ==
    /\ \A i, j \in 1 .. Len(HeldCards) : i # j => HeldCards[i] # HeldCards[j]
    /\ {HeldCards[i] : i \in 1 .. Len(HeldCards)} = 1 .. deck

\* C3: over a hand the running count changes by exactly the sum of the Hi-Lo
\* weights of the cards that have left the shoe in that hand.
C3_EveryCardCountedOnce ==
    hist.hands > 0 =>
        runningCount - hist.atDeal[1] = CountChange([i \in 1 .. deck |-> i], shoe)

\* C4: a human hit on the unsplit hand that brings the total above 21 runs the
\* dealer resolution in the same step; the outcome is Bust whatever the
\* dealer's final total is, no chips come back to the human and the loss
\* counter, and no other counter, goes up by 1.
C4_BustOnHitResolvesAtOnce ==
    [][ (/\ lastInput'[1] = "hit"
         /\ MoveButtons
         /\ Len(players'[HumanId].hand) = Len(players[HumanId].hand) + 1
         /\ Total(players'[HumanId].hand, shoe') > 21)
        => /\ ResolutionStep
           /\ dealerRevealed'
           /\ gameOver'
           /\ message' = "Bust"
           /\ players'[HumanId].chips = players[HumanId].chips
           /\ humanLosses' = humanLosses + 1
           /\ humanWins' = humanWins
           /\ humanPushes' = humanPushes ]_vars

\* A hit has bust the human and the dealer has then bust as well.
C4_BustAgainstDealerBust ==
    /\ lastInput[1] = "hit"
    /\ Total(players[HumanId].hand, shoe) > 21
    /\ Total(dealerHand, shoe) > 21
    /\ gameOver

\* C5: after a split, Bot 3's turn and the dealer resolution run exactly once
\* in the hand: only when split hand 2 completes, and never again before the
\* next deal.
C5_SplitResolvesOnce ==
    [][ (splitHands # Null /\ ResolutionStep)
        => /\ hist.reveals = 0
           /\ hist'.bot3Turns = 1
           /\ activeSplitIndex = 1 ]_vars

\* C6: between a deal and the next, handCount goes up by at most 1, by exactly
\* 1 once the hand is resolved, and wins, losses and pushes together go up by
\* as much as handCount.
C6_CountersOncePerHand ==
    hist.hands > 0 =>
        LET hands == handCount - hist.atDeal[2]
            wins == humanWins - hist.atDeal[3]
            losses == humanLosses - hist.atDeal[4]
            pushes == humanPushes - hist.atDeal[5]
        IN
        /\ hands \in {0, 1}
        /\ gameOver => hands = 1
        /\ wins >= 0 /\ losses >= 0 /\ pushes >= 0
        /\ wins + losses + pushes = hands

\* C7: in every hand that has reached resolution Bot 3 has taken its action
\* exactly once.
C7_Bot3ActsOncePerHand ==
    (hist.hands > 0 /\ hist.reveals > 0) => hist.bot3Turns = 1

\* C8: the session goes back to Betting, or on to the session summary, only
\* from a hand whose dealer resolution has run.
C8_NextHandOnlyWhenResolved ==
    [][ ((~bettingPhase /\ bettingPhase') \/ sessionAnalysis' # sessionAnalysis)
        => (gameOver /\ hist.reveals > 0) ]_vars

\* The number a text of decimal digits denotes.
RECURSIVE Denoted(_)
Denoted(text) ==
    IF text = <<>> THEN 0
    ELSE 10 * Denoted(SubSeq(text, 1, Len(text) - 1)) + DigitValue(text[Len(text)])

\* C9: a submitted bet is accepted if and only if it is an integer greater
\* than 0 and not greater than the human's chips; an accepted bet becomes the
\* human's bet, is taken from the human's chips and ends Betting; a rejected
\* bet leaves the session state as it was.
C9_BetAcceptedIffValid ==
    [][ lastInput'[1] = "bet" =>
          LET text == lastInput'[2]
              bet == Amount(Denoted(text))
              valid == text # <<>> /\ bet > 0 /\ bet <= players[HumanId].chips
          IN
          /\ valid =>
               /\ players' = [players EXCEPT ![HumanId].bet = bet,
                                             ![HumanId].chips = @ - bet]
               /\ bettingPhase /\ ~bettingPhase'
               /\ ~alertShown'
          /\ ~valid =>
               /\ players' = players
               /\ bettingPhase' = bettingPhase
               /\ alertShown'
          /\ UNCHANGED <<shoe, deck, dealerHand, message, handCount, dealerRevealed,
                         gameOver, runningCount, dealComplete, humanWins, humanLosses,
                         humanPushes, splitHands, activeSplitIndex, sessionAnalysis,
                         hist>> ]_vars

\* A bet above the human's chips has been rejected.
C9_BetAboveChipsRejected ==
    /\ lastInput = <<"bet", <<"7", "0", "0", "0">>>>
    /\ alertShown
    /\ bettingPhase
    /\ players[HumanId].chips = Amount(InitialChips)

\* The human chooses double on the initial two cards with fewer chips than the
\* current bet.
DoubleWithoutChips ==
    /\ lastInput'[1] = "double"
    /\ MoveButtons
    /\ Len(players[HumanId].hand) = 2
    /\ players[HumanId].chips < players[HumanId].bet

\* C10 as stated: the double with fewer chips than the bet degrades to a
\* stand; no chips are deducted, the bet is not doubled, no card is drawn, and
\* Bot 3 and the dealer resolution follow.
C10_DoubleDegradesToStand ==
    [][ DoubleWithoutChips
        => /\ players'[HumanId].chips >= players[HumanId].chips
           /\ players'[HumanId].bet = players[HumanId].bet
           /\ players'[HumanId].hand = players[HumanId].hand
           /\ hist'.bot3Turns = hist.bot3Turns + 1
           /\ ResolutionStep
           /\ gameOver' ]_vars

\* C10: the double with fewer chips than the bet is refused; no chips are
\* deducted, the bet is not doubled, no card is drawn, and the human's turn
\* goes on: Bot 3 and the dealer do not act and Hit, Stand and Double Down
\* stay available.
C10_DoubleRefused ==
    [][ DoubleWithoutChips
        => /\ UNCHANGED <<players, shoe, deck, runningCount, dealerHand, dealerRevealed,
                          message, gameOver, handCount, humanWins, humanLosses,
                          humanPushes, hist>>
           /\ MoveButtons' ]_vars

\* A double has been refused for want of chips and the human is still to move.
C10_RefusedDoubleLeavesTurnOpen ==
    /\ lastInput[1] = "double"
    /\ MoveButtons
    /\ Len(players[HumanId].hand) = 2
    /\ players[HumanId].chips < players[HumanId].bet

\* The blackjack value of a rank: ace 11, J/Q/K 10, otherwise the literal rank.
BlackjackValue(rank) ==
    CASE rank = "A" -> 11
      [] rank \in {"J", "Q", "K", "10"} -> 10
      [] rank = "2" -> 2 [] rank = "3" -> 3 [] rank = "4" -> 4 [] rank = "5" -> 5
      [] rank = "6" -> 6 [] rank = "7" -> 7 [] rank = "8" -> 8 [] rank = "9" -> 9

\* C11: a split request on a hand that is not exactly two cards of equal
\* blackjack value is refused and changes no game state; a hand of exactly two
\* equal-valued cards is eligible: with chips for the second bet it is split
\* into two one-card hands.
C11_IneligibleSplitRefused ==
    [][ lastInput'[1] = "split" =>
          LET human == players[HumanId]
              held == RanksOf(human.hand, shoe)
              eligible == /\ Len(held) = 2
                          /\ BlackjackValue(held[1]) = BlackjackValue(held[2])
          IN
          /\ ~eligible =>
               UNCHANGED <<players, shoe, deck, dealerHand, message, handCount,
                           dealerRevealed, gameOver, runningCount, bettingPhase,
                           dealComplete, humanWins, humanLosses, humanPushes, splitHands,
                           activeSplitIndex, sessionAnalysis, alertShown, effectPending,
                           hist>>
          /\ (eligible /\ human.chips >= human.bet) =>
               /\ splitHands' # Null
               /\ splitHands'[1].hand = <<human.hand[1]>>
               /\ splitHands'[2].hand = <<human.hand[2]>>
               /\ players'[HumanId].chips = human.chips - human.bet ]_vars

\* A split has been requested, and refused, on a 7 and a K.
C11_SplitOfUnequalCardsRefused ==
    /\ lastInput[1] = "split"
    /\ splitHands = Null
    /\ Len(players[HumanId].hand) = 2
    /\ RanksOf(players[HumanId].hand, shoe) = <<"7", "K">>
    /\ ~gameOver

\* The hand the split-hand controls act on.
ActiveSplitHand == splitHands[activeSplitIndex + 1]

\* C12: a double on the active split hand is accepted only while that hand
\* holds exactly one card; on a hand of more than one card it is refused: no
\* chips are deducted, the hand's bet is not changed, no card is drawn, the
\* hand is not marked completed and the active split index does not move.
C12_SplitDoubleOnlyOnOneCard ==
    [][ (/\ lastInput' = <<"splitMove", <<"double">>>>
         /\ SplitControls
         /\ Len(ActiveSplitHand.hand) # 1)
        => UNCHANGED <<players, splitHands, activeSplitIndex, shoe, deck, runningCount,
                       dealerHand, gameOver, handCount, hist>> ]_vars

\* A double has been refused on a split hand of two cards that is still open.
C12_DoubleRefusedAfterHit ==
    /\ lastInput = <<"splitMove", <<"double">>>>
    /\ splitHands # Null
    /\ Len(ActiveSplitHand.hand) = 2
    /\ ~ActiveSplitHand.completed

\* C13: split hands are played strictly in order: split hand 2 receives no
\* card and no action while split hand 1 is not completed; the active index
\* moves from hand 1 to hand 2 exactly when hand 1 is completed (stand, bust or
\* double); and a completed split hand never receives another card.
C13_SplitHandsInOrder ==
    [][ (splitHands # Null /\ splitHands' # Null)
        => /\ splitHands'[2] # splitHands[2] => splitHands[1].completed
           /\ activeSplitIndex' # activeSplitIndex
                <=> (~splitHands[1].completed /\ splitHands'[1].completed)
           /\ activeSplitIndex' # activeSplitIndex
                => (activeSplitIndex = 0 /\ activeSplitIndex' = 1)
           /\ \A i \in {1, 2} :
                splitHands[i].completed => splitHands'[i].hand = splitHands[i].hand ]_vars

\* C14: a split is accepted only before the human's first action of the hand:
\* the human still holds the two dealt cards and the hand has not been
\* resolved (an accepted hit or double adds a card, a stand or double leads
\* to the resolution) and has not been split.
C14_SplitOnlyBeforeFirstAction ==
    [][ (splitHands' # splitHands /\ splitHands' # Null)
        => /\ splitHands = Null
           /\ players[HumanId].hand = <<3, 7>>
           /\ hist.reveals = 0
           /\ ~gameOver ]_vars

\* C15: a next-hand request with handCount >= 5 sets handCount and the running
\* count to 0 and produces the cumulative summary; with handCount < 5 it
\* returns to Betting with handCount and the running count unchanged; so the
\* request after a summary reaches Betting.
C15_SummaryAfterFiveHands ==
    [][ lastInput'[1] = "nextHand" =>
          IF handCount >= HandsPerSession
          THEN /\ handCount' = 0
               /\ runningCount' = 0
               /\ sessionAnalysis' = <<humanWins, humanLosses, humanPushes>>
               /\ bettingPhase' = bettingPhase
          ELSE /\ bettingPhase'
               /\ handCount' = handCount
               /\ runningCount' = runningCount
               /\ sessionAnalysis' = sessionAnalysis ]_vars

\* After the summary of five hands the next request has reached Betting.
C15_BettingAfterSummary ==
    /\ lastInput[1] = "nextHand"
    /\ sessionAnalysis = <<0, HandsPerSession, 0>>
    /\ handCount = 0
    /\ bettingPhase

\* C16: wins, losses and pushes accumulate across hands (a resolution adds 1 to
\* one of them and takes nothing off) and are reset to 0, together with
\* handCount, when the cycle of 5 hands completes.
C16_CountersResetWithHandCount ==
    [][ /\ ResolutionStep =>
             /\ humanWins' >= humanWins
             /\ humanLosses' >= humanLosses
             /\ humanPushes' >= humanPushes
             /\ humanWins' + humanLosses' + humanPushes'
                  = humanWins + humanLosses + humanPushes + 1
        /\ (lastInput'[1] = "nextHand" /\ handCount >= HandsPerSession) =>
             /\ handCount' = 0
             /\ humanWins' = 0
             /\ humanLosses' = 0
             /\ humanPushes' = 0 ]_vars

\* C17: every player's chips is a non-negative integer: never negative and
\* never fractional (an odd number of half-chips).
C17_ChipsNonNegativeInteger ==
    \A id \in PlayerIds :
        /\ players[id].chips >= 0
        /\ players[id].chips % 2 = 0

\* The total of a hand with every ace counted as 1.
RECURSIVE LowTotal(_)
LowTotal(hand) ==
    IF hand = <<>> THEN 0
    ELSE (IF Head(hand) = "A" THEN 1 ELSE BlackjackValue(Head(hand))) + LowTotal(Tail(hand))

\* The totals of a hand over every way of counting each ace as 1 or 11.
PossibleTotals(hand) ==
    {LowTotal(hand) + 10 * high :
        high \in 0 .. Cardinality({i \in 1 .. Len(hand) : hand[i] = "A"})}

\* C18: calculateTotal returns the greatest total not above 21 that counting
\* each ace as 1 or 11 can reach, or, when there is none, the least possible
\* total.
C18_TotalIsBestAceCount ==
    (call.fn = "calculateTotal" /\ call.done) =>
        LET totals == PossibleTotals(call.args)
            within == {t \in totals : t <= 21}
        IN
        IF within # {}
        THEN call.result \in within /\ \A t \in within : t <= call.result
        ELSE call.result \in totals /\ \A t \in totals : call.result <= t

\* calculateTotal has returned 12 for two aces and a queen.
C18_TwoAcesSoftened ==
    /\ call.fn = "calculateTotal"
    /\ call.done
    /\ call.args = <<"A", "A", "Q">>
    /\ call.result = 12

\* C19: computeOutcome returns Bust when the player is above 21; otherwise Win
\* when the dealer is above 21; otherwise Lose, Win or Push as the dealer's
\* total is above, below or equal to the player's; and the outcome that the
\* dealer resolution derives from the same totals is of the same class.
C19_OutcomeByTotals ==
    (call.fn = "computeOutcome" /\ call.done) =>
        LET playerTotal == call.args[1]
            dealerTotal == call.args[2]
            outcome == call.result[1]
            resolved == call.result[2]
        IN
        /\ outcome = "Bust" <=> playerTotal > 21
        /\ outcome = "Win" <=> /\ playerTotal <= 21
                               /\ (dealerTotal > 21 \/ dealerTotal < playerTotal)
        /\ outcome = "Lose" <=> (playerTotal <= 21 /\ dealerTotal <= 21 /\ dealerTotal > playerTotal)
        /\ outcome = "Push" <=> (playerTotal <= 21 /\ dealerTotal = playerTotal)
        /\ outcome \in {"Bust", "Win", "Lose", "Push"}
        /\ outcome = "Bust" <=> resolved = "Bust"
        /\ outcome = "Win" <=> resolved \in {"You win!", "Dealer busts, you win!"}
        /\ outcome = "Lose" <=> resolved = "Dealer wins!"
        /\ outcome = "Push" <=> resolved = "Push!"

\* computeOutcome has returned Bust for a player and a dealer both at 22.
C19_BustAgainstBust ==
    /\ call.fn = "computeOutcome"
    /\ call.done
    /\ call.args = <<22, 22>>
    /\ call.result[1] = "Bust"

\* C20: a shoe from generateDeck with numDecks = 6 holds exactly 312 cards,
\* each of the 52 suit/rank combinations exactly 6 times; and a shoe in play
\* (cards shifted off it) never holds more than 312 cards.
C20_ShoeIsSixDecks ==
    (call.fn = "generateDeck" /\ call.done) =>
        /\ Len(call.result) <= 312
        /\ call.shifted = 0 =>
             /\ Len(call.result) = 312
             /\ \A s \in 1 .. 4 : \A r \in 1 .. 13 :
                  Cardinality({i \in 1 .. Len(call.result) :
                                  call.result[i] = [suit |-> suits[s], rank |-> ranks[r]]}) = 6

\* generateDeck has returned a shoe in another order than the cards were pushed.
C20_ShuffledShoe ==
    /\ call.fn = "generateDeck"
    /\ call.done
    /\ call.shifted = 0
    /\ call.result[1] # [suit |-> "spades", rank |-> "2"]

\* C21: Bot 1 doubles on any two-card hand totalling 10 or 11 whatever the
\* running count; otherwise it hits below 18 when the count is >= 2, below 15
\* when the count is <= -2, below 17 otherwise; and stands in every other case.
C21_Bot1Decision ==
    (call.fn = "bot1Play" /\ call.done) =>
        LET hand == call.args[1]
            count == call.args[2]
            total == calculateTotal(hand)
            doubles == Len(hand) = 2 /\ total \in {10, 11}
            hitsBelow == IF count >= 2 THEN 18 ELSE IF count <= -2 THEN 15 ELSE 17
        IN
        /\ call.result \in {"double", "hit", "stand"}
        /\ call.result = "double" <=> doubles
        /\ call.result = "hit" <=> (~doubles /\ total < hitsBelow)
        /\ call.result = "stand" <=> (~doubles /\ total >= hitsBelow)

\* Bot 1 has doubled on a two-card 10 at a running count of 2 or more.
C21_DoubleAtHighCount ==
    /\ call.fn = "bot1Play"
    /\ call.done
    /\ call.args = << <<"2", "8">>, 3 >>
    /\ call.result = "double"

\* C22: for every player total, dealer upcard, running count and number of
\* decks remaining, the move returned by getOptimalMove is one of hit, stand,
\* double_or_hit, surrender_or_hit.
C22_MoveIsOneOfFour ==
    (call.fn = "getOptimalMove" /\ call.done) =>
        call.result \in {"hit", "stand", "double_or_hit", "surrender_or_hit"}

\* C23: at resolution the dealer draws from the front of the deck exactly while
\* the dealer's total is below 17: the final total is at least 17, the total
\* before each drawn card was below 17, and a dealer whose cards already total
\* 17 or more (a soft 17 included) draws no card; before resolution the dealer
\* holds exactly the two dealt cards.
C23_DealerDrawsBelow17 ==
    [][ /\ ResolutionStep =>
             LET before == Len(dealerHand)
                 after == Len(dealerHand')
             IN
             /\ after >= before
             /\ SubSeq(dealerHand', 1, before) = dealerHand
             /\ \A k \in before + 1 .. after : dealerHand'[k] = deck + (k - before)
             /\ Total(dealerHand', shoe') >= 17
             /\ \A k \in before .. after - 1 : Total(SubSeq(dealerHand', 1, k), shoe') < 17
             /\ Total(dealerHand, shoe') >= 17 => dealerHand' = dealerHand
        /\ (hist'.hands > 0 /\ ~dealerRevealed') => dealerHand' = <<9, 10>>
      ]_vars

\* The dealer has drawn two cards to a hand dealt as 2, 2.
C23_DealerDrewTwice ==
    /\ hist.hands = 1
    /\ dealerRevealed
    /\ Len(dealerHand) = 4
    /\ shoe[9] = "2" /\ shoe[10] = "2"

\* The step in which the [bettingPhase] effect dealt a hand.
DealStep == lastInput' = <<"bettingPhaseEffect", <<>>>> /\ hist'.hands = hist.hands + 1

\* C24: every deal starts from a freshly generated 312-card shoe and clears the
\* previous split: right after it each of the four players holds exactly 2
\* cards and the dealer 2, taken from the front of the shoe in the order Bot 1,
\* Bot 2, You, Bot 3, Bot 1, Bot 2, You, Bot 3, dealer, dealer; the shoe holds
\* 302 cards, no split hands exist and the dealer's second card is hidden.
C24_DealFromFreshShoe ==
    [][ DealStep =>
          /\ players'[1].hand = <<1, 5>>
          /\ players'[2].hand = <<2, 6>>
          /\ players'[HumanId].hand = <<3, 7>>
          /\ players'[4].hand = <<4, 8>>
          /\ dealerHand' = <<9, 10>>
          /\ Len(shoe') = 10
          /\ ShoeSize - deck' = 302
          /\ splitHands' = Null
          /\ ~dealerRevealed'
      ]_vars

\* A hand has been dealt after a hand in which the human had split.
C24_DealtAfterSplit ==
    /\ hist.hands = 1
    /\ dealComplete
    /\ lastInput = <<"bettingPhaseEffect", <<>>>>
    /\ splitHands = Null
    /\ handCount = 1
    /\ humanLosses = 1

\* What the claim C25 has a bot's turn do to the bot: old is the bot before the
\* turn, new the bot after it, action the move chosen.
BotTurnAsChosen(old, new, action) ==
    IF action = "double" /\ old.chips >= old.bet
    THEN /\ new.chips = old.chips - old.bet
         /\ new.bet = 2 * old.bet
         /\ Len(new.hand) = Len(old.hand) + 1
    ELSE /\ new.chips = old.chips
         /\ new.bet = old.bet
         /\ Len(new.hand) = Len(old.hand) + (IF action = "hit" THEN 1 ELSE 0)

\* Each bot's turn does what its chosen move says (C25 without its last part).
BotTurnsAsChosen ==
    /\ lastInput' = <<"dealCompleteEffect", <<>>>> =>
          /\ BotTurnAsChosen(players[1], players'[1],
                             bot1Play(RanksOf(players[1].hand, shoe), runningCount))
          /\ BotTurnAsChosen(players[2], players'[2],
                             bot2Play(RanksOf(players[2].hand, shoe), runningCount))
    /\ hist'.bot3Turns = hist.bot3Turns + 1 =>
          \E below \in BOOLEAN :
              BotTurnAsChosen(players[4], players'[4],
                              bot3Play(RanksOf(players[4].hand, shoe), below))

\* C25: a bot's chosen double with chips >= bet deducts the bet from its chips,
\* doubles the bet and draws exactly one card; a chosen double with chips < bet
\* changes neither chips nor bet and draws no card; a hit draws exactly one card
\* and a stand none; so a bot acts once per hand and holds at most 3 cards.
C25_BotActsOncePerHand ==
    [][ /\ BotTurnsAsChosen
        /\ hist'.bot3Turns <= 1
        /\ \A id \in BotIds : Len(players'[id].hand) <= 3
      ]_vars

\* What the claim C26 has the resolution return for one split hand h against
\* the dealer's total, the shoe being sh.
SplitHandReturn(h, dealerTotal, sh) ==
    LET total == Total(h.hand, sh) IN
    IF total > 21 THEN 0
    ELSE IF dealerTotal > 21 \/ total > dealerTotal THEN 2 * h.bet
    ELSE IF total = dealerTotal THEN h.bet
    ELSE 0

\* C26: after a split, the resolution settles each of the two split hands
\* against the dealer's final total with that hand's own bet: 2 x the bet for a
\* hand that is not bust and beats the dealer or faces a dealer bust, the bet
\* for a tie, nothing for a bust or losing hand.
C26_SplitHandsSettled ==
    [][ (ResolutionStep /\ lastInput'[1] = "splitMove") =>
          LET dealerTotal == Total(dealerHand', shoe')
              \* the bet that an accepted double on the active hand took first
              doubled == IF lastInput'[2] = <<"double">> THEN ActiveSplitHand.bet ELSE 0
          IN
          players'[HumanId].chips =
              players[HumanId].chips - doubled
                + SplitHandReturn(splitHands'[1], dealerTotal, shoe')
                + SplitHandReturn(splitHands'[2], dealerTotal, shoe')
      ]_vars

\* C27: the session never gets stuck: in every state some input that the
\* interface accepts changes the state; in particular every Betting state
\* admits a valid bet (one chip is a valid bet whenever any bet is).
C27_NeverStuck ==
    /\ TableShown => (MoveButtons \/ NextHandButton)
    /\ (bettingPhase /\ ~effectPending) =>
          \E parsedBet \in {1} : BetValid(parsedBet, players[HumanId].chips)

\* C28: every dealt hand terminates: if the human keeps submitting hit or stand,
\* the hand eventually reaches the Resolved state (gameOver true, dealer
\* revealed).
C28_HandTerminates == dealComplete ~> (gameOver /\ dealerRevealed)

\* C29: no bot's chips ever increase: a bot's chips change only by the bet
\* deducted at the deal (50, or 100 when the running count is >= 2, capped at
\* the bot's chips) and by the extra bet deducted on a double.
C29_BotChipsNeverIncrease ==
    [][ \A id \in BotIds :
          LET old == players[id]
              new == players'[id]
              dealBet == IF runningCount >= 2 THEN Amount(100) ELSE Amount(50)
          IN
          /\ new.chips <= old.chips
          /\ DealStep =>
                new.chips = old.chips - (IF old.chips < dealBet THEN old.chips ELSE dealBet)
          /\ (~DealStep /\ new.chips # old.chips) =>
                /\ new.chips = old.chips - old.bet
                /\ new.bet = 2 * old.bet
                /\ Len(old.hand) = 2
                /\ Len(new.hand) = 3
                /\ IF id = 4 THEN hist'.bot3Turns = hist.bot3Turns + 1
                   ELSE lastInput' = <<"dealCompleteEffect", <<>>>>
      ]_vars

\* Bot 1 has bet 100 at a running count of 15 and doubled.
C29_Bot1DoubledHighBet ==
    /\ hist.hands = 1
    /\ hist.atDeal[1] = 15
    /\ players[1].chips = Amount(700)
    /\ players[1].bet = Amount(200)

====
